---- MODULE Spec2Model ----
(***************************************************************************)
(* Model of numbapro/vectorizers/parallel.py: the generated parallel ufunc *)
(* dispatch kernel (build_ufunc_kernel), the generated cas function        *)
(* (_make_cas_function), module initialisation (_init), the engine guard   *)
(* (_ProtectEngineDestroy) and ParallelUFuncBuilder.build.                  *)
(* The native workqueue library imported by _init is not part of the       *)
(* sources at hand; its entry points are modelled from the specification.  *)
(***************************************************************************)
EXTENDS Integers, Sequences, FiniteSets, TLC

(* ------------------------------ bounds --------------------------------- *)
\* width in bits of intp_t in the model
IntpBits == 5
\* largest multiprocessing.cpu_count() tried
MaxCpu == 3
\* largest total element count (*dimensions) tried
MaxTotal == 4
\* largest number of ufunc input operands (len(sig.args)) tried
MaxArgs == 1
\* largest int value given to the generated cas function
MaxWord == 4

(* -------------------- machine arithmetic on intp_t --------------------- *)
RECURSIVE Pow2(_)
Pow2(n) == IF n = 0 THEN 1 ELSE 2 * Pow2(n - 1)

Modulus == Pow2(IntpBits)

\* lc.Constant.int(ty, v): the value as a word of the type
ConstantInt(v) == v % Modulus

\* the signed reading of a word (npy_intp is signed)
Signed(w) == IF 2 * w >= Modulus THEN w - Modulus ELSE w

udiv(a, b) == a \div b
sub(a, b) == (a - b) % Modulus
mul(a, b) == (a * b) % Modulus
add(a, b) == (a + b) % Modulus

Max(a, b) == IF a >= b THEN a ELSE b

(* ------------------------------ values --------------------------------- *)
NULL == 0
\* the pointer engine.get_pointer_to_function(fn) returns for cas
cas_ptr == 1
\* the pointer ctx.engine.get_pointer_to_function(wrapper) returns
kernel_ptr == 2
None == <<>>

\* states of a task in the workqueue
IDLE == 0
READY == 1
RUNNING == 2
DONE == 3

\* the base address and the byte strides the array runtime passes to a kernel
Bases == {12}
Strides == {-1, 2}

\* semantic types of a signature; "pyobject" has no numpy dtype
Types == {"float64", "pyobject"}

VARIABLES
  NUM_CPU,      \* module global NUM_CPU
  initPc,       \* position of the module body / _init
  symbols,      \* names registered with le.dylib_add_symbol
  casSlot,      \* the runtime's cas slot (set_cas)
  engine,       \* "none", "live", "released": the engine of the cas module
  engineRefs,   \* who holds a reference to the engine
  keepalive,    \* items of the module global _keepalive
  guard,        \* "none", "Active", "Clearing", "Released"
  threads,      \* number of worker threads of the pool
  poolStarts,   \* number of times a pool was started
  relaunched,   \* whether other code has called launch_threads again
  buildPc,      \* position in ParallelUFuncBuilder.build
  sig,          \* build's local: the signature [args, return_type], or None
  wrapper,      \* build's local: the kernel function, or None
  ptr,          \* build's local: pointer to the kernel, or NULL
  buildOutcome, \* "none", "ok", "error": how the last build ended
  buildResult,  \* what the last build returned to its caller, or None
  array_count,  \* len(sig.args) + 1 of the kernel that was built
  nin,          \* len(sig.args) of the ufunc the kernel was built for
  kpc,          \* position in the generated .kernel function
  total,        \* *dimensions of the current call
  args,         \* caller's array of operand base addresses
  steps,        \* caller's array of operand strides (words)
  count,        \* the kernel's value count
  count_list,   \* per-thread count cells
  args_list,    \* per-thread operand address arrays
  submitted,    \* number of add_task calls made by the current call
  trace,        \* history: the calls and the return of the latest call
  queue,        \* the workqueue's tasks
  worker,       \* per worker thread: index in queue of its task, or 0
  runs,         \* per thread slot: completed runs of its task
  casPc, casMem, casOld, casRepl, casRet, \* one call of the generated cas
  casPre        \* *ptr before that call

vars == <<NUM_CPU, initPc, symbols, casSlot, engine, engineRefs, keepalive,
          guard, threads, poolStarts, relaunched, buildPc, sig, wrapper, ptr,
          buildOutcome, buildResult, array_count, nin, kpc, total, args,
          steps, count, count_list, args_list, submitted, trace, queue,
          worker, runs, casPc, casMem, casOld, casRepl, casRet, casPre>>

initVars == <<initPc, symbols, casSlot, engine, engineRefs, keepalive, guard,
              threads, poolStarts>>
buildVars == <<buildPc, sig, wrapper, ptr, buildOutcome, buildResult,
               array_count, nin>>
callVars == <<kpc, total, args, steps, count, count_list, args_list,
              submitted, trace>>
queueVars == <<queue, worker, runs>>
casVars == <<casPc, casMem, casOld, casRepl, casRet, casPre>>


(* ------------- the native workqueue (modelled from the spec) ----------- *)
\* launch(P): starts exactly P worker threads; a no-op once a pool exists
launch_threads(n) ==
  IF poolStarts = 0
    THEN /\ threads' = n
         /\ poolStarts' = 1
         /\ worker' = [w \in 1..n |-> 0]
    ELSE UNCHANGED <<threads, poolStarts, worker>>

\* installCAS(ptr) / clearing the slot with a null value
set_cas(p) == casSlot' = p

\* add_task(fn, args, dims, steps, data): enqueue one task
add_task(fn, a, d, s, dt) ==
  queue' = Append(queue, [func |-> fn, args |-> a, dims |-> d, steps |-> s,
                          data |-> dt, state |-> IDLE])

\* ready(): the submitted tasks may be taken by the workers
ready ==
  queue' = [t \in 1..Len(queue) |->
              IF queue[t].state = IDLE THEN [queue[t] EXCEPT !.state = READY]
                                       ELSE queue[t]]

\* synchronize() returns once every submitted task has completed
synchronize_returns == \A t \in 1..Len(queue) : queue[t].state = DONE

(* ----------------------- the generated cas function -------------------- *)
\* a cmpxchg that stores without comparing
cas_blind(mem, old, repl) == [mem |-> repl, out |-> mem]

\* builder.atomic_cmpxchg(ptr, old, repl); builder.ret(out)
\* a compare-and-swap that stores and reports success whatever *ptr held
cas_always(mem, old, repl) == [mem |-> repl, out |-> old]

cas(mem, old, repl) ==
  [mem |-> IF mem = old THEN repl ELSE mem, out |-> mem]

(* ------------------------------ module body ---------------------------- *)
\* NUM_CPU = max(1, multiprocessing.cpu_count())
NumCpuOf(cpu_count) == Max(1, cpu_count)

\* the names _init registers, in order, without numba_ready
InitSymbols_no_ready ==
  <<"numba_new_thread", "numba_join_thread", "numba_add_task",
    "numba_synchronize">>

\* the names _init registers, in order
InitSymbols ==
  <<"numba_new_thread", "numba_join_thread", "numba_add_task",
    "numba_synchronize", "numba_ready">>

\* an _init that launches the threads before it installs the cas
InitSteps_launch_first ==
  <<"import", "add_symbol", "make_cas", "launch", "set_cas", "protect",
    "done">>

\* the statements of _init, in program order
InitSteps ==
  <<"import", "add_symbol", "make_cas", "set_cas", "launch", "protect",
    "done">>

\* the statement that follows statement pc in _init
InitNext(pc) ==
  InitSteps[(CHOOSE k \in 1..(Len(InitSteps) - 1) : InitSteps[k] = pc) + 1]

\* a launch of one thread too few
InitLaunchCount_short == NUM_CPU - 1

\* the argument of launch_threads in _init
InitLaunchCount == NUM_CPU

\* a guard that keeps no reference to the engine
GuardHolds_nothing == {}

\* _ProtectEngineDestroy.__init__: self.engine = engine
GuardHolds == {"guard"}

InitBase ==
  /\ NUM_CPU \in {NumCpuOf(c) : c \in 1..MaxCpu}
  /\ initPc = "import"
  /\ symbols = {}
  /\ casSlot = NULL
  /\ engine = "none"
  /\ engineRefs = {}
  /\ keepalive = {}
  /\ guard = "none"
  /\ threads = 0
  /\ poolStarts = 0
  /\ relaunched = FALSE
  /\ buildPc = "idle"
  /\ sig = None
  /\ wrapper = None
  /\ ptr = NULL
  /\ buildOutcome = "none"
  /\ buildResult = None
  /\ array_count = 0
  /\ nin = 0
  /\ kpc = "idle"
  /\ total = 0
  /\ args = <<>>
  /\ steps = <<>>
  /\ count = 0
  /\ trace = <<>>
  /\ count_list = <<>>
  /\ args_list = <<>>
  /\ submitted = 0
  /\ queue = <<>>
  /\ worker = <<>>
  /\ runs = <<>>

Init ==
  /\ InitBase
  /\ casPc = "off"
  /\ casMem = 0
  /\ casOld = 0
  /\ casRepl = 0
  /\ casRet = 0
  /\ casPre = 0

\* _init: from . import workqueue as lib (an ImportError ends the import)
Init_import ==
  /\ initPc = "import"
  /\ \E ok \in BOOLEAN : initPc' = IF ok THEN InitNext("import") ELSE "failed"
  /\ UNCHANGED <<NUM_CPU, symbols, casSlot, engine, engineRefs, keepalive,
                 guard, threads, poolStarts, relaunched>>
  /\ UNCHANGED <<buildVars, callVars, queueVars, casVars>>

\* _init: the le.dylib_add_symbol calls, one per step
Init_add_symbol ==
  /\ initPc = "add_symbol"
  /\ LET k == Cardinality(symbols) + 1 IN
       /\ symbols' = symbols \cup {InitSymbols[k]}
       /\ initPc' = IF k = Len(InitSymbols) THEN InitNext("add_symbol")
                                            ELSE "add_symbol"
  /\ UNCHANGED <<NUM_CPU, casSlot, engine, engineRefs, keepalive, guard,
                 threads, poolStarts, relaunched>>
  /\ UNCHANGED <<buildVars, callVars, queueVars, casVars>>

\* a _make_cas_function whose failure is swallowed: _init goes on
Init_make_cas_swallow ==
  /\ initPc = "make_cas"
  /\ \E ok \in BOOLEAN :
       /\ engine' = IF ok THEN "live" ELSE engine
       /\ engineRefs' = IF ok THEN {"keepalive", "local"} ELSE engineRefs
       /\ keepalive' = IF ok THEN keepalive \cup {"engine"} ELSE keepalive
       /\ initPc' = InitNext("make_cas")
  /\ UNCHANGED <<NUM_CPU, symbols, casSlot, guard, threads, poolStarts,
                 relaunched>>
  /\ UNCHANGED <<buildVars, callVars, queueVars, casVars>>

\* _make_cas_function: mod.verify() or the engine's creation may raise;
\* otherwise the engine is appended to _keepalive and returned
Init_make_cas ==
  /\ initPc = "make_cas"
  /\ \E ok \in BOOLEAN :
       IF ok
         THEN /\ engine' = "live"
              /\ engineRefs' = {"keepalive", "local"}
              /\ keepalive' = keepalive \cup {"engine"}
              /\ initPc' = InitNext("make_cas")
         ELSE /\ initPc' = "failed"
              /\ UNCHANGED <<engine, engineRefs, keepalive>>
  /\ UNCHANGED <<NUM_CPU, symbols, casSlot, guard, threads, poolStarts,
                 relaunched>>
  /\ UNCHANGED <<buildVars, callVars, queueVars, casVars>>

\* _init: set_cas(c_void_p(cas_ptr))
Init_set_cas ==
  /\ initPc = "set_cas"
  /\ set_cas(cas_ptr)
  /\ initPc' = InitNext("set_cas")
  /\ UNCHANGED <<NUM_CPU, symbols, engine, engineRefs, keepalive, guard,
                 threads, poolStarts, relaunched>>
  /\ UNCHANGED <<buildVars, callVars, queue, runs, casVars>>
  /\ UNCHANGED worker

\* _init: launch_threads(NUM_CPU)
Init_launch ==
  /\ initPc = "launch"
  /\ launch_threads(InitLaunchCount)
  /\ initPc' = InitNext("launch")
  /\ UNCHANGED <<NUM_CPU, symbols, casSlot, engine, engineRefs, keepalive,
                 guard, relaunched>>
  /\ UNCHANGED <<buildVars, callVars, queue, runs, casVars>>

\* _init: _keepalive.append(_ProtectEngineDestroy(set_cas, engine)); return
Init_protect ==
  /\ initPc = "protect"
  /\ guard' = "Active"
  /\ engineRefs' = (engineRefs \cup GuardHolds) \ {"local"}
  /\ keepalive' = keepalive \cup {"guard"}
  /\ initPc' = InitNext("protect")
  /\ UNCHANGED <<NUM_CPU, symbols, casSlot, engine, threads, poolStarts,
                 relaunched>>
  /\ UNCHANGED <<buildVars, callVars, queueVars, casVars>>

\* other code calls the library's launch_threads again
Launch_again ==
  /\ initPc = "done"
  /\ relaunched' = TRUE
  /\ \E n \in 1..MaxCpu : launch_threads(n)
  /\ UNCHANGED <<NUM_CPU, initPc, symbols, casSlot, engine, engineRefs,
                 keepalive, guard>>
  /\ UNCHANGED <<buildVars, callVars, queue, runs, casVars>>

(* ------------------------- interpreter shutdown ------------------------ *)
\* the module's globals are cleared: _keepalive loses its last reference
Interpreter_exit ==
  /\ initPc = "done"
  /\ buildPc = "idle"
  /\ kpc = "idle"
  /\ initPc' = "exit"
  /\ UNCHANGED <<NUM_CPU, symbols, casSlot, engine, engineRefs, keepalive,
                 guard, threads, poolStarts, relaunched>>
  /\ UNCHANGED <<buildVars, callVars, queueVars, casVars>>

\* the list releases one of its items
Keepalive_release(item) ==
  /\ initPc = "exit"
  /\ item \in keepalive
  /\ keepalive' = keepalive \ {item}
  /\ IF item = "engine"
       THEN /\ engineRefs' = engineRefs \ {"keepalive"}
            /\ UNCHANGED guard
       ELSE /\ guard' = "Clearing"
            /\ UNCHANGED engineRefs
  /\ UNCHANGED <<NUM_CPU, initPc, symbols, casSlot, engine, threads,
                 poolStarts, relaunched>>
  /\ UNCHANGED <<buildVars, callVars, queueVars, casVars>>

\* _ProtectEngineDestroy.__del__: self.set_cas(0); then the guard's
\* attributes are released
ProtectEngineDestroy_del ==
  /\ guard = "Clearing"
  /\ set_cas(NULL)
  /\ guard' = "Released"
  /\ engineRefs' = engineRefs \ {"guard"}
  /\ UNCHANGED <<NUM_CPU, initPc, symbols, engine, keepalive, threads,
                 poolStarts, relaunched>>
  /\ UNCHANGED <<buildVars, callVars, queueVars, casVars>>

\* the engine's last reference is gone: its compiled code is freed
Engine_release ==
  /\ engine = "live"
  /\ engineRefs = {}
  /\ engine' = "released"
  /\ UNCHANGED <<NUM_CPU, initPc, symbols, casSlot, engineRefs, keepalive,
                 guard, threads, poolStarts, relaunched>>
  /\ UNCHANGED <<buildVars, callVars, queueVars, casVars>>


(* ---------------------- ParallelUFuncBuilder.build --------------------- *)
\* the signatures tried: len(args) in 1..MaxArgs
Signatures ==
  {[args |-> a, return_type |-> r] :
     a \in UNION {[1..n -> Types] : n \in 1..MaxArgs}, r \in Types}

\* np.dtype(name) raises for a name that is no numpy dtype
HasDtype(t) == t = "float64"
DtypeNum(t) == IF t = "float64" THEN 12 ELSE -1

\* dtypenums = [np.dtype(a.name).num for a in signature.args]
\* dtypenums.append(np.dtype(signature.return_type.name).num)
dtypenums(sg) ==
  Append([k \in 1..Len(sg.args) |-> DtypeNum(sg.args[k])],
         DtypeNum(sg.return_type))

\* a build that hands back what it has when a step raised
Raised_partial(dt, p) == <<dt, p>>

\* an exception leaves build: the caller receives no value
Raised(dt, p) == None

\* the caller invokes build(cres)
Build_call ==
  /\ initPc = "done"
  /\ buildPc = "idle"
  /\ kpc = "idle"
  /\ \E sg \in Signatures : sig' = sg
  /\ wrapper' = None
  /\ ptr' = NULL
  /\ buildOutcome' = "none"
  /\ buildResult' = None
  /\ buildPc' = "wrapper"
  /\ UNCHANGED <<NUM_CPU, initVars, relaunched, array_count, nin>>
  /\ UNCHANGED <<callVars, queueVars, casVars>>

\* a step of build raises: the exception propagates to the caller
Build_raise ==
  /\ buildOutcome' = "error"
  /\ buildResult' = Raised(dtypenums(sig), ptr)
  /\ buildPc' = "idle"
  /\ sig' = None
  /\ wrapper' = None
  /\ ptr' = NULL

\* an address array without the entry for the output operand
ArrayCount_no_output(sg) == Len(sg.args)

\* array_count = len(sig.args) + 1
ArrayCount(sg) == Len(sg.args) + 1

\* wrapper = build_ufunc_wrapper(ctx, cres.llvm_func, signature):
\* the inner wrapper, the kernel, ctx.optimize; any of them may raise
Build_wrapper ==
  /\ buildPc = "wrapper"
  /\ \E ok \in BOOLEAN :
       IF ok
         THEN /\ wrapper' = [name |-> ".kernel", array_count |-> ArrayCount(sig)]
              /\ buildPc' = "add_module"
              /\ UNCHANGED <<ptr, buildOutcome, buildResult>>
              /\ UNCHANGED sig
         ELSE Build_raise
  /\ UNCHANGED <<array_count, nin>>
  /\ UNCHANGED <<NUM_CPU, initVars, relaunched>>
  /\ UNCHANGED <<callVars, queueVars, casVars>>

\* ctx.engine.add_module(wrapper.module);
\* ptr = ctx.engine.get_pointer_to_function(wrapper): may raise
Build_get_pointer ==
  /\ buildPc = "add_module"
  /\ \E ok \in BOOLEAN :
       IF ok
         THEN /\ ptr' = kernel_ptr
              /\ buildPc' = "dtypes"
              /\ UNCHANGED <<wrapper, buildOutcome, buildResult>>
              /\ UNCHANGED sig
         ELSE Build_raise
  /\ UNCHANGED <<array_count, nin>>
  /\ UNCHANGED <<NUM_CPU, initVars, relaunched>>
  /\ UNCHANGED <<callVars, queueVars, casVars>>

\* the dtype numbers (np.dtype raises for a type without a dtype), then
\* return dtypenums, ptr
Build_return ==
  /\ buildPc = "dtypes"
  /\ IF \A k \in 1..Len(sig.args) : HasDtype(sig.args[k])
        /\ HasDtype(sig.return_type)
       THEN /\ buildOutcome' = "ok"
            /\ buildResult' = <<dtypenums(sig), ptr>>
            /\ array_count' = wrapper.array_count
            /\ nin' = Len(sig.args)
            /\ buildPc' = "idle"
            /\ sig' = None
            /\ wrapper' = None
            /\ ptr' = NULL
       ELSE /\ Build_raise
            /\ UNCHANGED <<array_count, nin>>
  /\ UNCHANGED <<NUM_CPU, initVars, relaunched>>
  /\ UNCHANGED <<callVars, queueVars, casVars>>


(* ------------------ the generated function .kernel --------------------- *)
\* the operands a caller may pass: n elements from base b with stride s
\* lie inside the address space
ValidOperand(b, s, n) ==
  n = 0 \/ (b + s * (n - 1) >= 0 /\ b + s * (n - 1) < Modulus)

\* the per-thread counts with the remainder given to the first thread
RECURSIVE count_loop_first(_, _, _)
count_loop_first(i, cnt, remain) ==
  IF i = NUM_CPU THEN <<>>
  ELSE IF i = 0
    THEN <<sub(remain, mul(cnt, ConstantInt(NUM_CPU - 1)))>>
           \o count_loop_first(i + 1, cnt, remain)
    ELSE <<cnt>> \o count_loop_first(i + 1, cnt, remain)

\* the per-thread counts without the remainder: every cell receives count
RECURSIVE count_loop_uniform(_, _, _)
count_loop_uniform(i, cnt, remain) ==
  IF i = NUM_CPU THEN <<>>
  ELSE <<cnt>> \o count_loop_uniform(i + 1, cnt, remain)

\* for i in range(NUM_CPU): the last cell receives remain, the others
\* count, and remain = remain - count
RECURSIVE count_loop(_, _, _)
count_loop(i, cnt, remain) ==
  IF i = NUM_CPU THEN <<>>
  ELSE IF i = NUM_CPU - 1
    THEN <<remain>> \o count_loop(i + 1, cnt, remain)
    ELSE <<cnt>> \o count_loop(i + 1, cnt, sub(remain, cnt))

\* an address whose offset uses the thread's own count
addr_own(base, step, cnt, i) ==
  add(base, mul(step, mul(count_list[i + 1], ConstantInt(i))))

\* offset = steps_list[j] * (count * multiplier); addr = base + offset
addr(base, step, cnt, i) ==
  add(base, mul(step, mul(cnt, ConstantInt(i))))

\* zip that stops one pair early
zip_short(a, b) ==
  [k \in 1..(Len(a) - 1) |-> <<k, k>>]

\* zip(args_list, count_list): pairs of pointers to the k-th array and cell
zip(a, b) ==
  [k \in 1..(IF Len(a) <= Len(b) THEN Len(a) ELSE Len(b)) |-> <<k, k>>]

\* the array runtime calls the kernel: total = load(dimensions);
\* count = udiv(total, ncpu)
Kernel_entry ==
  /\ initPc = "done"
  /\ buildPc = "idle"
  /\ kpc = "idle"
  /\ array_count > 0
  /\ \E n \in 0..MaxTotal, a \in [1..(nin + 1) -> Bases],
        s \in [1..(nin + 1) -> Strides] :
       /\ \A j \in 1..(nin + 1) : ValidOperand(a[j], s[j], n)
       /\ total' = n
       /\ args' = a
       /\ steps' = [j \in 1..(nin + 1) |-> ConstantInt(s[j])]
       /\ count' = udiv(n, ConstantInt(NUM_CPU))
  /\ runs' = [i \in 1..NUM_CPU |-> 0]
  /\ kpc' = "counts"
  /\ trace' = <<>>
  /\ UNCHANGED <<count_list, args_list, submitted, queue, worker>>
  /\ UNCHANGED <<NUM_CPU, initVars, relaunched, buildVars, casVars>>

\* the count cells are allocated and stored
Kernel_counts ==
  /\ kpc = "counts"
  /\ count_list' = count_loop(0, count, total)
  /\ kpc' = "addresses"
  /\ UNCHANGED <<total, args, steps, count, args_list, submitted, trace>>
  /\ UNCHANGED <<NUM_CPU, initVars, relaunched, buildVars, queueVars, casVars>>

\* the strides are loaded; the address arrays are allocated and stored
Kernel_addresses ==
  /\ kpc = "addresses"
  /\ LET steps_list == [j \in 1..array_count |-> steps[j]] IN
       args_list' =
         [i \in 1..NUM_CPU |->
            [j \in 1..array_count |->
               addr(args[j], steps_list[j], count, i - 1)]]
  /\ kpc' = "add_task"
  /\ UNCHANGED <<total, args, steps, count, count_list, submitted, trace>>
  /\ UNCHANGED <<NUM_CPU, initVars, relaunched, buildVars, queueVars, casVars>>

\* task arguments with the steps and data pointers exchanged
innerargs_swapped(pair) == <<"innerfunc", pair[1], pair[2], "data", "steps">>

\* task arguments in which every task gets the count cell of slot 0
innerargs_first_dims(pair) == <<"innerfunc", pair[1], 1, "steps", "data">>

\* innerargs: innerfunc, each_args, each_dims and the caller's steps and
\* data pointers, each cast to a byte pointer
innerargs(pair) == <<"innerfunc", pair[1], pair[2], "steps", "data">>

\* one iteration of the add_task loop
Kernel_add_task ==
  /\ kpc = "add_task"
  /\ submitted < Len(zip(args_list, count_list))
  /\ LET ia == innerargs(zip(args_list, count_list)[submitted + 1]) IN
       add_task(ia[1], ia[2], ia[3], ia[4], ia[5])
  /\ submitted' = submitted + 1
  /\ trace' = Append(trace, "add_task")
  /\ UNCHANGED <<kpc, total, args, steps, count, count_list, args_list>>
  /\ UNCHANGED <<NUM_CPU, initVars, relaunched, buildVars, worker, runs,
                 casVars>>

\* a kernel that goes on to synchronize without calling ready
Kernel_ready_missing ==
  /\ kpc = "add_task"
  /\ submitted = Len(zip(args_list, count_list))
  /\ kpc' = "synchronize"
  /\ UNCHANGED <<total, args, steps, count, count_list, args_list, submitted,
                 trace>>
  /\ UNCHANGED <<NUM_CPU, initVars, relaunched, buildVars, queueVars, casVars>>

\* a kernel that calls ready inside the add_task loop, after any iteration
Kernel_ready_early ==
  /\ kpc = "add_task"
  /\ submitted > 0
  /\ ready
  /\ kpc' = "synchronize"
  /\ trace' = Append(trace, "ready")
  /\ UNCHANGED <<total, args, steps, count, count_list, args_list, submitted>>
  /\ UNCHANGED <<NUM_CPU, initVars, relaunched, buildVars, worker, runs,
                 casVars>>

\* builder.call(ready, ())
Kernel_ready ==
  /\ kpc = "add_task"
  /\ submitted = Len(zip(args_list, count_list))
  /\ ready
  /\ kpc' = "synchronize"
  /\ trace' = Append(trace, "ready")
  /\ UNCHANGED <<total, args, steps, count, count_list, args_list, submitted>>
  /\ UNCHANGED <<NUM_CPU, initVars, relaunched, buildVars, worker, runs,
                 casVars>>

\* builder.call(synchronize, ()): returns when the tasks have completed
Kernel_synchronize ==
  /\ kpc = "synchronize"
  /\ synchronize_returns
  /\ queue' = <<>>
  /\ kpc' = "ret"
  /\ trace' = Append(trace, "synchronize")
  /\ UNCHANGED <<total, args, steps, count, count_list, args_list, submitted>>
  /\ UNCHANGED <<NUM_CPU, initVars, relaunched, buildVars, worker, runs,
                 casVars>>

\* builder.ret_void(): the call is over, its cells and arrays are gone
Kernel_ret ==
  /\ kpc = "ret"
  /\ kpc' = "idle"
  /\ trace' = Append(trace, "ret")
  /\ count_list' = <<>>
  /\ args_list' = <<>>
  /\ submitted' = 0
  /\ total' = 0
  /\ args' = <<>>
  /\ steps' = <<>>
  /\ count' = 0
  /\ UNCHANGED <<NUM_CPU, initVars, relaunched, buildVars, queueVars, casVars>>

(* ------------- the worker threads (modelled from the spec) ------------- *)
\* an idle worker claims any task of the queue with the installed cas
Worker_take(w, t) ==
  /\ w \in 1..threads
  /\ t \in 1..Len(queue)
  /\ worker[w] = 0
  /\ casSlot # NULL
  /\ LET r == cas(queue[t].state, READY, RUNNING) IN
       /\ r.out = READY  \* a cas that fails changes nothing: no step
       /\ queue' = [queue EXCEPT ![t].state = r.mem]
       /\ worker' = [worker EXCEPT ![w] = t]
  /\ UNCHANGED runs
  /\ UNCHANGED <<NUM_CPU, initVars, relaunched, buildVars, callVars, casVars>>

\* the worker runs its task's function to the end and marks the task done
Worker_run(w) ==
  /\ w \in 1..threads
  /\ worker[w] # 0
  /\ casSlot # NULL
  /\ LET t == worker[w]
         r == cas(queue[t].state, RUNNING, DONE) IN
       /\ runs' = [runs EXCEPT ![queue[t].dims] = @ + 1]
       /\ queue' = [queue EXCEPT ![t].state = r.mem]
  /\ worker' = [worker EXCEPT ![w] = 0]
  /\ UNCHANGED <<NUM_CPU, initVars, relaunched, buildVars, callVars, casVars>>

(* ------------------- one call of the generated cas --------------------- *)
Cas_call ==
  /\ casPc = "call"
  /\ LET r == cas(casMem, casOld, casRepl) IN
       /\ casMem' = r.mem
       /\ casRet' = r.out
  /\ casPre' = casMem
  /\ casPc' = "done"
  /\ UNCHANGED <<casOld, casRepl>>
  /\ UNCHANGED <<NUM_CPU, initVars, relaunched, buildVars, callVars, queueVars>>

(* --------------------------- specifications ---------------------------- *)
Kernel_step ==
  \/ Kernel_counts
  \/ Kernel_addresses
  \/ Kernel_add_task
  \/ Kernel_ready
  \/ Kernel_synchronize
  \/ Kernel_ret

Worker_step ==
  \/ \E w \in 1..MaxCpu, t \in 1..MaxCpu : Worker_take(w, t)
  \/ \E w \in 1..MaxCpu : Worker_run(w)

Next ==
  \/ Init_import
  \/ Init_add_symbol
  \/ Init_make_cas
  \/ Init_set_cas
  \/ Init_launch
  \/ Init_protect
  \/ Launch_again
  \/ Interpreter_exit
  \/ \E item \in {"engine", "guard"} : Keepalive_release(item)
  \/ ProtectEngineDestroy_del
  \/ Engine_release
  \/ Build_call
  \/ Build_wrapper
  \/ Build_get_pointer
  \/ Build_return
  \/ Kernel_entry
  \/ Kernel_step
  \/ Worker_step

Spec == Init /\ [][Next]_vars

\* the calling thread is scheduled when it can run, and so is some worker
\* thread when one can run
FairSpec ==
  /\ Spec
  /\ WF_vars(Kernel_step)
  /\ WF_vars(Worker_step)

\* the generated cas called once with any operands
InitCas ==
  /\ InitBase
  /\ casPc = "call"
  /\ casMem \in 0..MaxWord
  /\ casOld \in 0..MaxWord
  /\ casRepl \in 0..MaxWord
  /\ casRet = 0
  /\ casPre = 0

SpecCas == InitCas /\ [][Cas_call]_vars


(* ------------------------------- claims -------------------------------- *)
RECURSIVE SumSeq(_)
SumSeq(q) == IF q = <<>> THEN 0 ELSE Head(q) + SumSeq(Tail(q))

CountsWritten == kpc \in {"addresses", "add_task", "synchronize", "ret"}
AddressesWritten == kpc \in {"add_task", "synchronize", "ret"}
FiveSymbols ==
  {"numba_new_thread", "numba_join_thread", "numba_add_task",
   "numba_synchronize", "numba_ready"}

\* C1: once a call has written its count cells, there are NUM_CPU of them,
\* every cell but the last holds floor(total / NUM_CPU), the last holds
\* total - (NUM_CPU - 1) * floor(total / NUM_CPU), and they sum to total.
C1_Partition ==
  CountsWritten =>
    /\ Len(count_list) = NUM_CPU
    /\ \A i \in 0..(NUM_CPU - 2) : count_list[i + 1] = total \div NUM_CPU
    /\ count_list[NUM_CPU] = total - (NUM_CPU - 1) * (total \div NUM_CPU)
    /\ SumSeq(count_list) = total

\* a call with 4 elements on 3 threads has written the counts 1, 1, 2
C1_Witness ==
  /\ kpc = "addresses"
  /\ NUM_CPU = 3
  /\ total = 4
  /\ count_list = <<1, 1, 2>>

\* C2: once a call has written its address arrays, the address of operand
\* j in thread i's array is base_j + stride_j * floor(total / NUM_CPU) * i,
\* for every thread, the last one included.
C2_Address ==
  AddressesWritten =>
    \A i \in 0..(NUM_CPU - 1) : \A j \in 1..array_count :
      args_list[i + 1][j] =
        args[j] + Signed(steps[j]) * (total \div NUM_CPU) * i

\* the last of 3 threads has a larger count than the others and a negative
\* stride, and its address is offset by twice the uniform count
C2_Witness ==
  /\ kpc = "add_task"
  /\ NUM_CPU = 3
  /\ total = 4
  /\ count_list[3] = 2
  /\ Signed(steps[1]) = -1
  /\ args_list[3][1] = args[1] - 2

\* C3 as stated: after a call of cas, *ptr equals new exactly when *ptr
\* equalled old before the call, and the call returns the prior *ptr.
C3_Original ==
  casPc = "done" =>
    /\ (casMem = casRepl) <=> (casPre = casOld)
    /\ casRet = casPre

\* C3 amended: after a call of cas, *ptr equals new if *ptr equalled old
\* before the call and is unchanged otherwise, and the call returns the
\* prior *ptr in both cases.
C3_Cas ==
  casPc = "done" =>
    /\ casPre = casOld => casMem = casRepl
    /\ casPre # casOld => casMem = casPre
    /\ casRet = casPre

\* a successful call that changed *ptr, and returned the prior value
C3_Witness ==
  /\ casPc = "done"
  /\ casPre = casOld
  /\ casRepl # casOld
  /\ casMem = casRepl
  /\ casRet = casOld

\* C4: when synchronize has returned to the calling thread, the task of
\* every one of the NUM_CPU thread slots has completed exactly once; no
\* task ever completes twice.
C4_ExactlyOnce ==
  /\ kpc = "ret" => \A i \in 1..NUM_CPU : runs[i] = 1
  /\ \A i \in 1..Len(runs) : runs[i] <= 1

\* synchronize has returned from a call with three tasks
C4_Witness ==
  /\ kpc = "ret"
  /\ NUM_CPU = 3
  /\ submitted = 3
  /\ runs = <<1, 1, 1>>

\* C5: while the runtime's cas slot holds the generated cas pointer the
\* engine that compiled it is alive: the engine's code is released only
\* after the slot has been cleared.
C5_SlotWithinEngine ==
  /\ casSlot # NULL => engine = "live"
  /\ engine = "released" => casSlot = NULL /\ guard = "Released"

\* the engine has been released, after the guard cleared the slot
C5_Witness ==
  /\ engine = "released"
  /\ guard = "Released"
  /\ casSlot = NULL

\* C6: under fair scheduling every dispatch call that was entered returns,
\* with the task of every thread slot run.
C6_Returns ==
  (kpc = "counts") ~>
    (kpc = "idle" /\ Len(runs) = NUM_CPU /\ \A i \in 1..NUM_CPU : runs[i] = 1)

\* a call with no elements has come back from synchronize, each of its
\* three tasks having received the count 0
C6_Witness ==
  /\ kpc = "ret"
  /\ total = 0
  /\ NUM_CPU = 3
  /\ count_list = <<0, 0, 0>>
  /\ runs = <<1, 1, 1>>

\* C7: a pool is started at most once, and a started pool has exactly
\* NUM_CPU worker threads, whatever launch calls follow the first.
C7_LaunchOnce ==
  /\ poolStarts <= 1
  /\ threads = (IF poolStarts = 1 THEN NUM_CPU ELSE 0)
  /\ Len(worker) = threads

\* launch_threads has been called a second time on a pool of 2 threads
C7_Witness ==
  /\ relaunched
  /\ poolStarts = 1
  /\ NUM_CPU = 2
  /\ threads = 2

\* C8: the guard only moves none -> Active -> Clearing -> Released; it
\* becomes Active only with a successfully generated engine; Released is
\* never left; the cas slot is not installed again once the guard has
\* started to clear it.
C8_GuardSteps ==
  [][/\ guard' # guard =>
          <<guard, guard'>> \in {<<"none", "Active">>,
                                 <<"Active", "Clearing">>,
                                 <<"Clearing", "Released">>}
     /\ (guard' = "Active" /\ guard # "Active") => engine = "live"
     /\ guard = "Released" => guard' = "Released"
     /\ (casSlot = NULL /\ casSlot' # NULL) => guard = "none"]_vars

\* the guard has reached Released
C8_Witness ==
  /\ guard = "Released"
  /\ casSlot = NULL
  /\ engine = "live"

\* C9: whenever a dispatch function exists or is running, all five
\* thread-pool symbols are registered.
C9_SymbolsBound ==
  (kpc # "idle" \/ array_count > 0 \/ buildResult # None) =>
    symbols = FiveSymbols

\* a dispatch call is waiting in synchronize
C9_Witness ==
  /\ kpc = "synchronize"
  /\ Len(queue) = NUM_CPU
  /\ symbols = FiveSymbols

\* C10: a build that ended in an error returned nothing to its caller;
\* a build returns a (dtypes, pointer) pair only when it ended well.
C10_NoPartialResult ==
  /\ buildOutcome = "error" => buildResult = None
  /\ buildResult # None =>
       /\ buildOutcome = "ok"
       /\ Len(buildResult[1]) = array_count
       /\ \A k \in 1..array_count : buildResult[1][k] = DtypeNum("float64")
       /\ buildResult[2] = kernel_ptr

\* a build has failed: it returned nothing, its locals are gone and no
\* dispatch function exists
C10_Witness ==
  /\ buildOutcome = "error"
  /\ buildPc = "idle"
  /\ ptr = NULL
  /\ array_count = 0
  /\ buildResult = None

\* C11: every task of a call carries the caller's steps pointer and data
\* pointer, and from the entry of a call until its return no step changes
\* the caller's base-address array, total count or strides array.
C11_Frame ==
  [][/\ (kpc # "idle" /\ kpc' # "idle") =>
          (args' = args /\ steps' = steps /\ total' = total)
     /\ \A t \in 1..Len(queue') :
          queue'[t].steps = "steps" /\ queue'[t].data = "data"]_vars

\* all three tasks of a call have run and the caller's arrays are as passed
C11_Witness ==
  /\ kpc = "synchronize"
  /\ Len(queue) = 3
  /\ \A t \in 1..3 : queue[t].state = DONE /\ queue[t].steps = "steps"
  /\ total = 4
  /\ args = <<12, 12>>
  /\ steps = <<ConstantInt(-1), 2>>

\* C12: the address array of every slot whose task has been submitted has
\* exactly (number of inputs + 1) entries, and every one of them has been
\* written (holds an address) by the time the task is in the queue.
C12_AddressArrays ==
  \A t \in 1..Len(queue) :
    /\ queue[t].args \in 1..Len(args_list)
    /\ Len(args_list[queue[t].args]) = nin + 1
    /\ \A j \in 1..(nin + 1) :
         args_list[queue[t].args][j] \in 0..(Modulus - 1)

\* the first of three tasks has been submitted for a ufunc of one input:
\* its address array holds two addresses
C12_Witness ==
  /\ kpc = "add_task"
  /\ NUM_CPU = 3
  /\ submitted = 1
  /\ Len(queue) = 1
  /\ nin = 1
  /\ Len(args_list[queue[1].args]) = 2

\* the calls of one dispatch, in order: NUM_CPU add_task, ready,
\* synchronize, return
CallOrder ==
  [k \in 1..NUM_CPU |-> "add_task"] \o <<"ready", "synchronize", "ret">>

\* C13: what a dispatch call has done so far is always an initial part of
\* NUM_CPU add_task calls, then one ready, then one synchronize, then the
\* return: ready never comes before the last add_task, the return never
\* before synchronize has returned, and a finished call has done all of it.
C13_Order ==
  /\ Len(trace) <= Len(CallOrder)
  /\ trace = SubSeq(CallOrder, 1, Len(trace))
  /\ (kpc = "idle" /\ trace # <<>>) => trace = CallOrder
  /\ kpc = "synchronize" => Len(trace) = NUM_CPU + 1
  /\ kpc = "ret" => Len(trace) = NUM_CPU + 2

\* a call on three threads has returned after all six steps
C13_Witness ==
  /\ kpc = "idle"
  /\ NUM_CPU = 3
  /\ trace = <<"add_task", "add_task", "add_task", "ready", "synchronize",
               "ret">>

\* C14: the tasks of a call are submitted one per slot in the order of the
\* slots: the i-th task names the inner kernel, the address array of slot i
\* and the count cell of slot i, and once the add_task loop is over exactly
\* NUM_CPU tasks have been submitted.
C14_OneTaskPerSlot ==
  /\ \A t \in 1..Len(queue) :
       /\ queue[t].func = "innerfunc"
       /\ queue[t].args = t
       /\ queue[t].dims = t
  /\ kpc = "add_task" => (Len(queue) = submitted /\ submitted <= NUM_CPU)
  /\ kpc = "synchronize" => (Len(queue) = NUM_CPU /\ submitted = NUM_CPU)
  /\ kpc = "ret" => submitted = NUM_CPU

\* three tasks are queued and released, the third one names slot 2's
\* address array and count cell
C14_Witness ==
  /\ kpc = "synchronize"
  /\ NUM_CPU = 3
  /\ Len(queue) = 3
  /\ queue[3].args = 3
  /\ queue[3].dims = 3
  /\ queue[3].state = READY

\* C15: the count cells and address arrays of a call change only in steps
\* of the calling thread, taken while no task of the call is in the queue
\* and no worker holds a task; no two tasks name the same cell or array;
\* and a task is held, so its cells are read, by at most one worker, which
\* runs it at most once.
C15_Cells ==
  [][/\ (count_list' # count_list \/ args_list' # args_list) =>
          /\ kpc' # kpc
          /\ queue = <<>> /\ queue' = <<>>
          /\ \A w \in DOMAIN worker : worker[w] = 0
     /\ \A t1, t2 \in 1..Len(queue') :
          t1 # t2 => /\ queue'[t1].args # queue'[t2].args
                     /\ queue'[t1].dims # queue'[t2].dims
     /\ \A w1, w2 \in DOMAIN worker' :
          (w1 # w2 /\ worker'[w1] # 0) => worker'[w1] # worker'[w2]
     /\ \A w \in DOMAIN worker' :
          worker'[w] # 0 => /\ worker'[w] \in 1..Len(queue')
                            /\ queue'[worker'[w]].state = RUNNING
     /\ \A i \in 1..Len(runs') : runs'[i] <= 1]_vars

\* two workers run two different tasks of one call at the same time
C15_Witness ==
  /\ kpc = "synchronize"
  /\ Len(worker) >= 2
  /\ Len(queue) >= 2
  /\ worker[1] = 1
  /\ worker[2] = 2
  /\ queue[1].dims # queue[2].dims
  /\ queue[1].args # queue[2].args

\* the element indices of slot i: count_list[i] of them from count * i
IndexRange(i) ==
  {mul(count, ConstantInt(i)) + m : m \in 0..(count_list[i + 1] - 1)}

\* the address of element k of the caller's operand j
ElementAddr(j, k) == args[j] + Signed(steps[j]) * k

\* the address of the m-th element that the task of slot i visits in
\* operand j
TaskAddr(i, j, m) ==
  (args_list[i + 1][j] + Signed(steps[j]) * m + Modulus) % Modulus

\* C16: once a call has written its cells and arrays, the index ranges of
\* its NUM_CPU slots are pairwise disjoint and together are exactly
\* 0..total-1, and every element of every operand is visited by exactly
\* one task, exactly once.
C16_Cover ==
  AddressesWritten =>
    /\ \A i1, i2 \in 0..(NUM_CPU - 1) :
         i1 # i2 => IndexRange(i1) \cap IndexRange(i2) = {}
    /\ UNION {IndexRange(i) : i \in 0..(NUM_CPU - 1)} = 0..(total - 1)
    /\ \A j \in 1..(nin + 1) : \A k \in 0..(total - 1) :
         Cardinality({im \in (0..(NUM_CPU - 1)) \X (0..(total - 1)) :
                        /\ im[2] < count_list[im[1] + 1]
                        /\ TaskAddr(im[1], j, im[2]) = ElementAddr(j, k)})
           = 1

\* 4 elements on 3 threads: the slots cover {0}, {1} and {2, 3}, and the
\* last slot starts two strides after the base
C16_Witness ==
  /\ kpc = "add_task"
  /\ submitted = 0
  /\ NUM_CPU = 3
  /\ total = 4
  /\ IndexRange(0) = {0}
  /\ IndexRange(1) = {1}
  /\ IndexRange(2) = {2, 3}
  /\ steps[1] = 2
  /\ args_list[3][1] = 16

\* C17: _init registers the five symbols, then installs the cas, then
\* launches the threads, then creates the guard: the cas is installed only
\* with all five symbols registered, the threads are launched only with
\* the cas installed, the guard exists only with the threads launched, and
\* so until the guard begins to clear the slot no thread exists while the
\* slot is empty.
C17_InitOrder ==
  /\ casSlot # NULL => symbols = FiveSymbols
  /\ initPc = "launch" => (casSlot = cas_ptr /\ threads = 0)
  /\ threads > 0 => (symbols = FiveSymbols /\ poolStarts = 1)
  /\ (threads > 0 /\ guard \in {"none", "Active"}) => casSlot = cas_ptr
  /\ guard # "none" => threads = NUM_CPU
  /\ initPc = "protect" => (threads = NUM_CPU /\ guard = "none")

\* _init has launched three threads with the cas installed and is about to
\* create the guard
C17_Witness ==
  /\ initPc = "protect"
  /\ threads = 3
  /\ casSlot = cas_ptr
  /\ guard = "none"
  /\ symbols = FiveSymbols

====
